---- MODULE Spec2Model ----
(***************************************************************************)
(* Model of src/penalize_uninteresting_values.c: the boundary-penalty      *)
(* transform of the COCO problem-transformation chain.                     *)
(*                                                                         *)
(* A problem is a record of its metadata; the transform is a problem that  *)
(* carries a factor and a reference to the inner problem.  One call of     *)
(* _puv_evaluate_function is followed statement by statement: pc is the    *)
(* position of the call, i the loop index, penalty the accumulator, x and  *)
(* y the caller's buffers.  Doubles are modelled by integers (all values   *)
(* used are small integers, exactly representable, and the arithmetic on   *)
(* them is exact in both); C's 0-based indices are shifted to 1-based.     *)
(* assert() is modelled as compiled in (the file includes <assert.h> and   *)
(* does not define NDEBUG): a failed assertion aborts the process.         *)
(***************************************************************************)
EXTENDS Integers, Sequences, FiniteSets, TLC

VARIABLES inner, transforms, pc, self, x, y, i, penalty,
          innerCalls, innerX, innerY, last

vars == <<inner, transforms, pc, self, x, y, i, penalty,
          innerCalls, innerX, innerY, last>>

frame == <<self, x, y, i, penalty, innerCalls, innerX, innerY>>

(* ---------------------------------------------------------------- bounds *)

\* Largest number_of_variables of the inner problem.
MaxN == 2
\* Largest number_of_objectives of the inner problem.
MaxM == 2

\* Sample values of the doubles the model draws from.
LowerVals == {-1, 0, 1}
UpperVals == {0, 1}
XVals == {-3, -2, 0, 1, 2}
FactorVals == {-1, 0, 1, 2}
InnerVals == {0, 5}
\* What the caller's y buffer holds before the call (never read by the code).
GarbageVals == {-1000}

\* The null pointer, and the empty history entry.
NULL == [null |-> TRUE]
None == [none |-> TRUE]

(* ------------------------------------------------------- pure operators *)

RECURSIVE SumOver(_, _)
\* Sum of f[k] for k in 1..n.
SumOver(f, n) == IF n = 0 THEN 0 ELSE SumOver(f, n - 1) + f[n]

\* A leaf problem: metadata only; its evaluate is EvaluateInner below.
Problems ==
    UNION { [number_of_variables : {n},
             number_of_objectives : 1..MaxM,
             smallest_values_of_interest : [1..n -> LowerVals],
             largest_values_of_interest : [1..n -> UpperVals]] : n \in 0..MaxN }

\* Variant: the assertion written with <=.
BoundsOkNonStrict(lo, hi) == lo <= hi
\* assert(lower_bounds[i] < upper_bounds[i]);
BoundsOk(lo, hi) == lo < hi

\* Variants of the loop body: the violation not squared; the violation clamped
\* to 1; the two bounds swapped; the else-if branch missing.
ContributionNoSquare(xi, lo, hi) ==
    LET c1 == xi - hi
        c2 == lo - xi
    IN  IF c1 > 0 THEN c1 ELSE IF c2 > 0 THEN c2 ELSE 0
ContributionClamped(xi, lo, hi) ==
    LET c1 == xi - hi
        c2 == lo - xi
    IN  IF c1 > 0 \/ c2 > 0 THEN 1 ELSE 0
ContributionSwappedBounds(xi, lo, hi) ==
    LET c1 == xi - lo
        c2 == hi - xi
    IN  IF c1 > 0 THEN c1 * c1 ELSE IF c2 > 0 THEN c2 * c2 ELSE 0
ContributionUpperOnly(xi, lo, hi) ==
    LET c1 == xi - hi
    IN  IF c1 > 0 THEN c1 * c1 ELSE 0
\* The body of the first loop for one coordinate: c1, c2 and the if / else-if.
Contribution(xi, lo, hi) ==
    LET c1 == xi - hi
        c2 == lo - xi
    IN  IF c1 > 0 THEN c1 * c1 ELSE IF c2 > 0 THEN c2 * c2 ELSE 0

\* Variant: the sign of the factor dropped.
AddPenaltyAbsFactor(yj, factor, pen) ==
    yj + (IF factor < 0 THEN -factor ELSE factor) * pen
\* y[i] += data->factor * penalty;
AddPenalty(yj, factor, pen) == yj + factor * pen

\* coco_allocate_transformed_problem(inner_problem, data, NULL): a new problem
\* with the inner problem's metadata, the data block and the inner reference.
coco_allocate_transformed_problem(inner_problem, data) ==
    [number_of_variables |-> inner_problem.number_of_variables,
     number_of_objectives |-> inner_problem.number_of_objectives,
     smallest_values_of_interest |-> inner_problem.smallest_values_of_interest,
     largest_values_of_interest |-> inner_problem.largest_values_of_interest,
     evaluate_function |-> "_tfp_evaluate_function",
     data |-> data,
     inner_problem |-> inner_problem]

\* Variant: a constructor that declares a single objective.
penalize_one_objective(inner_problem, factor) ==
    [coco_allocate_transformed_problem(inner_problem, [factor |-> factor])
        EXCEPT !.evaluate_function = "_puv_evaluate_function",
               !.number_of_objectives = 1]
\* penalize_uninteresting_values(inner_problem, factor), past its assert: the
\* data block holds the factor, the evaluate function is replaced.
penalize_uninteresting_values(inner_problem, factor) ==
    [coco_allocate_transformed_problem(inner_problem, [factor |-> factor])
        EXCEPT !.evaluate_function = "_puv_evaluate_function"]

(* ------------------------------------------------------------- actions *)

Slots == DOMAIN transforms
Self == transforms[self]
Running == pc \in {"loop", "inner", "add"}

\* Construction: penalize_uninteresting_values(inner, factor) stored in slot t.
Construct(t, factor) ==
    /\ pc = "idle"
    /\ transforms[t] = NULL
    /\ IF inner = NULL
       THEN /\ pc' = "aborted"
            /\ UNCHANGED transforms
       ELSE /\ transforms' =
                 [transforms EXCEPT ![t] = penalize_uninteresting_values(inner, factor)]
            /\ UNCHANGED pc
    /\ UNCHANGED <<inner, frame, last>>

\* Variant: penalty not initialised at entry (as a static accumulator would be).
EnterKeepingPenalty(t, xv, fill) ==
    /\ pc = "idle"
    /\ transforms[t] # NULL
    /\ transforms[t].evaluate_function = "_puv_evaluate_function"
    /\ self' = t
    /\ x' = xv
    /\ y' = [j \in 1..transforms[t].number_of_objectives |-> fill]
    /\ penalty' = penalty
    /\ i' = 1
    /\ innerCalls' = 0
    /\ innerX' = <<>>
    /\ innerY' = <<>>
    /\ pc' = IF transforms[t].number_of_variables = 0 THEN "inner" ELSE "loop"
    /\ UNCHANGED <<inner, transforms>>
\* Entry of _puv_evaluate_function(self, x, y): penalty = 0.0, i = 0; y is
\* the caller's buffer, holding whatever it held.
Enter(t, xv, fill) ==
    /\ pc = "idle"
    /\ transforms[t] # NULL
    /\ transforms[t].evaluate_function = "_puv_evaluate_function"
    /\ self' = t
    /\ x' = xv
    /\ y' = [j \in 1..transforms[t].number_of_objectives |-> fill]
    /\ penalty' = 0
    /\ i' = 1
    /\ innerCalls' = 0
    /\ innerX' = <<>>
    /\ innerY' = <<>>
    /\ pc' = IF transforms[t].number_of_variables = 0 THEN "inner" ELSE "loop"
    /\ UNCHANGED <<inner, transforms>>

\* A caller evaluates transform t at any point of its search space.
Call(t, fill) ==
    /\ pc = "idle"
    /\ transforms[t] # NULL
    /\ \E xv \in [1..transforms[t].number_of_variables -> XVals] : Enter(t, xv, fill)
    /\ UNCHANGED last

\* What the finished call added to each objective.
Added == [j \in DOMAIN y |-> y[j] - innerY[j]]

\* The points that differ from xv in at most one coordinate.
Neighbours(xv) ==
    {w \in [DOMAIN xv -> XVals] : Cardinality({k \in DOMAIN xv : w[k] # xv[k]}) <= 1}

\* A caller that probes along one coordinate at a time and keeps the previous
\* call's outcome: the first point is any point, each later one a neighbour
\* of the point before.
CallRemembering(t, fill) ==
    /\ pc = "idle"
    /\ \E xv \in IF last # None THEN Neighbours(last.x)
                  ELSE [1..transforms[t].number_of_variables -> XVals] :
          Enter(t, xv, fill)
    /\ UNCHANGED last

\* One iteration of the first loop: the assert, then the accumulation.
LoopStep ==
    /\ pc = "loop"
    /\ LET lo == Self.smallest_values_of_interest[i]
           hi == Self.largest_values_of_interest[i]
       IN  IF ~BoundsOk(lo, hi)
           THEN /\ pc' = "aborted"
                /\ UNCHANGED <<penalty, i>>
           ELSE /\ penalty' = penalty + Contribution(x[i], lo, hi)
                /\ i' = i + 1
                /\ pc' = IF i = Self.number_of_variables THEN "inner" ELSE "loop"
    /\ UNCHANGED <<inner, transforms, self, x, y, innerCalls, innerX, innerY, last>>

\* Variant: the inner problem evaluated only when the penalty is zero.
EvaluateInnerOnlyInBounds ==
    /\ pc = "inner"
    /\ \E vals \in [1..Self.inner_problem.number_of_objectives -> InnerVals] :
          IF penalty = 0
          THEN /\ y' = vals
               /\ innerY' = vals
               /\ innerX' = x
               /\ innerCalls' = innerCalls + 1
          ELSE /\ y' = [j \in DOMAIN y |-> 0]
               /\ innerY' = y'
               /\ UNCHANGED <<innerX, innerCalls>>
    /\ i' = 1
    /\ pc' = "add"
    /\ UNCHANGED <<inner, transforms, self, x, penalty, last>>
\* assert(inner != NULL); coco_evaluate_function(inner, x, y): the inner
\* problem writes its objective vector (any values) into y.
EvaluateInner ==
    /\ pc = "inner"
    /\ IF Self.inner_problem = NULL
       THEN /\ pc' = "aborted"
            /\ UNCHANGED <<y, innerY, innerX, innerCalls, i>>
       ELSE /\ \E vals \in [1..Self.inner_problem.number_of_objectives -> InnerVals] :
                  /\ y' = vals
                  /\ innerY' = vals
            /\ innerX' = x
            /\ innerCalls' = innerCalls + 1
            /\ i' = 1
            /\ pc' = "add"
    /\ UNCHANGED <<inner, transforms, self, x, penalty, last>>

\* Variant: the second loop stops after the first objective.
AddStepFirstOnly ==
    /\ pc = "add"
    /\ y' = [y EXCEPT ![i] = AddPenalty(y[i], Self.data.factor, penalty)]
    /\ i' = i + 1
    /\ pc' = "done"
    /\ UNCHANGED <<inner, transforms, self, x, penalty, innerCalls, innerX, innerY, last>>
\* One iteration of the second loop.
AddStep ==
    /\ pc = "add"
    /\ y' = [y EXCEPT ![i] = AddPenalty(y[i], Self.data.factor, penalty)]
    /\ i' = i + 1
    /\ pc' = IF i = Self.number_of_objectives THEN "done" ELSE "add"
    /\ UNCHANGED <<inner, transforms, self, x, penalty, innerCalls, innerX, innerY, last>>

\* The call returns and the caller has read y: its buffers are released. The
\* storage of the locals penalty and i is left as the call left it.
Release ==
    /\ pc = "done"
    /\ pc' = "idle"
    /\ self' = 0
    /\ x' = <<>>
    /\ y' = <<>>
    /\ innerCalls' = 0
    /\ innerX' = <<>>
    /\ innerY' = <<>>
    /\ UNCHANGED <<inner, transforms, i, penalty>>

Return ==
    /\ Release
    /\ UNCHANGED last

\* The same return, to the caller that keeps the outcome.
ReturnRemembering ==
    /\ Release
    /\ last' = [self |-> self, x |-> x, added |-> Added]

Idle ==
    /\ pc = "idle"
    /\ self = 0
    /\ x = <<>>
    /\ y = <<>>
    /\ i = 0
    /\ penalty = 0
    /\ innerCalls = 0
    /\ innerX = <<>>
    /\ innerY = <<>>
    /\ last = None

\* An inner problem exists; one transform slot, nothing constructed yet.
Init ==
    /\ inner \in Problems \cup {NULL}
    /\ transforms = [t \in {1} |-> NULL]
    /\ Idle

Next ==
    \/ \E t \in Slots, factor \in FactorVals : Construct(t, factor)
    \/ \E t \in Slots, fill \in GarbageVals : Call(t, fill)
    \/ LoopStep
    \/ EvaluateInner
    \/ AddStep
    \/ Return

Spec == Init /\ [][Next]_vars

\* Problems whose bounds are well formed at every coordinate.
WellFormed(p) ==
    \A k \in 1..p.number_of_variables :
        p.smallest_values_of_interest[k] < p.largest_values_of_interest[k]

\* The same region of interest on every coordinate.
Uniform(p) ==
    \A k \in 1..p.number_of_variables :
        /\ p.smallest_values_of_interest[k] = p.smallest_values_of_interest[1]
        /\ p.largest_values_of_interest[k] = p.largest_values_of_interest[1]

\* Two transforms over one well-formed inner problem, factors 1 and k.
InitHist ==
    /\ inner \in {p \in Problems :
                    WellFormed(p) /\ Uniform(p) /\ p.number_of_variables > 0}
    /\ \E k \in FactorVals :
          transforms = <<penalize_uninteresting_values(inner, 1),
                         penalize_uninteresting_values(inner, k)>>
    /\ Idle

NextHist ==
    \/ \E t \in Slots, fill \in GarbageVals : CallRemembering(t, fill)
    \/ LoopStep
    \/ EvaluateInner
    \/ AddStep
    \/ ReturnRemembering

SpecHist == InitHist /\ [][NextHist]_vars

(* -------------------------------------------------------------- claims *)

Lower(p, k) == p.smallest_values_of_interest[k]
Upper(p, k) == p.largest_values_of_interest[k]
Factor(p) == p.data.factor
Objectives == 1..Self.number_of_objectives
Coordinates == 1..Self.number_of_variables

\* (x[k]-upper[k])^2 above the box, (lower[k]-x[k])^2 below it, 0 inside.
SquaredViolation(v, lo, hi) ==
    IF v > hi THEN (v - hi) * (v - hi)
    ELSE IF v < lo THEN (lo - v) * (lo - v) ELSE 0

\* The raw sum of the squared violations of xv against the bounds of p.
RawPenalty(xv, p) ==
    SumOver([k \in 1..p.number_of_variables |->
                SquaredViolation(xv[k], Lower(p, k), Upper(p, k))],
            p.number_of_variables)

\* C1: with well-formed bounds, evaluate returns for every objective j exactly
\* inner.evaluate(x)[j] + factor * P(x), P the raw sum of squared violations
\* (no clamping, no division by the dimension).
C1_RawPenaltySum ==
    (pc = "done" /\ WellFormed(Self)) =>
        \A j \in Objectives : y[j] = innerY[j] + Factor(Self) * RawPenalty(x, Self)

\* bounds [-1,1]^2, inner value 5, factor 2, x = [-3,0]: 13.
C1_Witness ==
    /\ pc = "done"
    /\ Self.smallest_values_of_interest = <<-1, -1>>
    /\ Self.largest_values_of_interest = <<1, 1>>
    /\ Factor(Self) = 2
    /\ x = <<-3, 0>>
    /\ innerY = <<5>>
    /\ y = <<13>>

InBounds(xv, p) ==
    \A k \in 1..p.number_of_variables : Lower(p, k) <= xv[k] /\ xv[k] <= Upper(p, k)

\* C2: for every x inside the box (points on a bound included) and every
\* factor, evaluate returns exactly what the inner problem returned.
C2_InBoundsTransparency ==
    (pc = "done" /\ InBounds(x, inner)) => y = innerY

\* A point on the upper bound of one coordinate and on the lower bound of
\* another, under a non-zero factor.
C2_Witness ==
    /\ pc = "done"
    /\ Factor(Self) # 0
    /\ InBounds(x, inner)
    /\ \E k \in Coordinates : x[k] = Upper(inner, k)
    /\ \E k \in Coordinates : x[k] = Lower(inner, k)
    /\ y = innerY

Untouched == \A j \in DOMAIN y : y[j] \in GarbageVals

\* C3: a call that succeeds evaluates the inner problem exactly once, with the
\* caller's x, whatever the penalty, and before the penalty is added: up to
\* the delegation y is untouched, after it y holds the inner values with the
\* penalty term added to the objectives the second loop has passed.
C3_InnerEvaluatedOnceFirst ==
    /\ pc \in {"loop", "inner"} => innerCalls = 0 /\ Untouched
    /\ pc \in {"add", "done"} =>
          /\ innerCalls = 1
          /\ innerX = x
          /\ \A j \in Objectives :
                y[j] = IF pc = "done" \/ j < i
                       THEN innerY[j] + Factor(Self) * penalty
                       ELSE innerY[j]

\* The inner problem was evaluated although the penalty is zero.
C3_Witness ==
    /\ pc = "done"
    /\ penalty = 0
    /\ Factor(Self) # 0
    /\ innerCalls = 1
    /\ innerX = x
    /\ Len(x) = MaxN

\* C4: with more than one objective, the result differs from the inner result
\* by the same scalar at every objective index.
C4_UniformAcrossObjectives ==
    (pc = "done" /\ Self.number_of_objectives > 1) =>
        \A j, k \in Objectives : y[j] - innerY[j] = y[k] - innerY[k]

C4_Witness ==
    /\ pc = "done"
    /\ Self.number_of_objectives = MaxM
    /\ innerY[1] # innerY[MaxM]
    /\ y[1] - innerY[1] # 0
    /\ y[MaxM] - innerY[MaxM] = y[1] - innerY[1]

Malformed(p, k) == Lower(p, k) >= Upper(p, k)
FirstMalformed(p) ==
    CHOOSE k \in 1..p.number_of_variables :
        Malformed(p, k) /\ \A l \in 1..(k - 1) : ~Malformed(p, l)

\* C5: with bounds malformed at some coordinate, every call of evaluate ends
\* in the failed assertion, whatever x is: it never gets past the first
\* malformed coordinate, never returns, and up to the abort the inner problem
\* has not been evaluated and y has not been written.
C5_MalformedBoundsFatal ==
    (self # 0 /\ ~WellFormed(Self)) =>
        /\ pc \in {"loop", "aborted"}
        /\ innerCalls = 0
        /\ Untouched
        /\ i <= FirstMalformed(Self)
        /\ pc = "loop" => ENABLED LoopStep
        /\ pc = "aborted" => i = FirstMalformed(Self)

\* The abort at a coordinate with lower = upper = x[i], which would have
\* contributed no penalty.
C5_Witness ==
    /\ pc = "aborted"
    /\ self # 0
    /\ Malformed(Self, i)
    /\ x[i] = Lower(Self, i)
    /\ x[i] = Upper(Self, i)

\* C6: the problem penalize_uninteresting_values returns has the inner
\* problem's number_of_variables, number_of_objectives and bounds, only its
\* evaluate is replaced, and the construction leaves inner as it was.
C6_MetadataPassThrough ==
    [][\A t \in Slots :
          (transforms[t] = NULL /\ transforms'[t] # NULL) =>
              /\ transforms'[t].number_of_variables = inner.number_of_variables
              /\ transforms'[t].number_of_objectives = inner.number_of_objectives
              /\ transforms'[t].smallest_values_of_interest
                    = inner.smallest_values_of_interest
              /\ transforms'[t].largest_values_of_interest
                    = inner.largest_values_of_interest
              /\ transforms'[t].evaluate_function = "_puv_evaluate_function"
              /\ transforms'[t].inner_problem = inner
              /\ inner' = inner]_vars

C6_Witness ==
    /\ transforms[1] # NULL
    /\ inner.number_of_variables = MaxN
    /\ inner.number_of_objectives = MaxM
    /\ inner.smallest_values_of_interest[1] # inner.smallest_values_of_interest[MaxN]
    /\ transforms[1].number_of_variables = MaxN
    /\ transforms[1].number_of_objectives = MaxM
    /\ transforms[1].smallest_values_of_interest = inner.smallest_values_of_interest
    /\ transforms[1].largest_values_of_interest = inner.largest_values_of_interest

\* C7: the transform keeps no state across calls: no step changes a
\* transform (factor, bounds), no step of a call changes the caller's x, and
\* a call at the x of the call before it (same transform) adds the same term.
C7_Stateless ==
    [][/\ transforms' = transforms
       /\ Running => x' = x
       /\ (pc' = "done" /\ last' # None /\ last'.self = self' /\ last'.x = x') =>
              Added' = last'.added]_vars

C7_Witness ==
    /\ pc = "done"
    /\ last # None
    /\ last.self = self
    /\ last.x = x
    /\ Added = last.added
    /\ Added[1] # 0

Dist(v, lo, hi) == IF v > hi THEN v - hi ELSE IF v < lo THEN lo - v ELSE 0
Side(v, lo, hi) == IF v > hi THEN 1 ELSE IF v < lo THEN -1 ELSE 0

\* Coordinate k is outside at a and further outside, on the same side, at b;
\* every other coordinate of a and of b is in bounds.
MovedOut(a, b, p, k) ==
    /\ Side(a[k], Lower(p, k), Upper(p, k)) # 0
    /\ Side(b[k], Lower(p, k), Upper(p, k)) = Side(a[k], Lower(p, k), Upper(p, k))
    /\ Dist(b[k], Lower(p, k), Upper(p, k)) > Dist(a[k], Lower(p, k), Upper(p, k))
    /\ \A l \in 1..p.number_of_variables :
          l # k => /\ Side(a[l], Lower(p, l), Upper(p, l)) = 0
                   /\ Side(b[l], Lower(p, l), Upper(p, l)) = 0

SquaredDist(xv, p, k) ==
    Dist(xv[k], Lower(p, k), Upper(p, k)) * Dist(xv[k], Lower(p, k), Upper(p, k))

\* C8 as stated: whatever the factor, moving one coordinate further outside
\* does not decrease the amount added, which is factor * distance^2.
C8_MonotoneAnyFactor ==
    (pc = "done" /\ last # None /\ last.self = self) =>
        \A k \in Coordinates :
            MovedOut(last.x, x, Self, k) =>
                \A j \in Objectives :
                    /\ Added[j] >= last.added[j]
                    /\ Added[j] = Factor(Self) * SquaredDist(x, Self, k)

\* C8 as amended: the amount added is factor * distance^2 for every factor; it
\* does not decrease when the factor is >= 0 and does not increase when the
\* factor is <= 0.
C8_MonotoneBySignOfFactor ==
    (pc = "done" /\ last # None /\ last.self = self) =>
        \A k \in Coordinates :
            MovedOut(last.x, x, Self, k) =>
                \A j \in Objectives :
                    /\ Factor(Self) >= 0 => Added[j] >= last.added[j]
                    /\ Factor(Self) <= 0 => Added[j] <= last.added[j]
                    /\ Added[j] = Factor(Self) * SquaredDist(x, Self, k)
                    /\ last.added[j] = Factor(Self) * SquaredDist(last.x, Self, k)

C8_Witness ==
    /\ pc = "done"
    /\ last # None
    /\ last.self = self
    /\ Factor(Self) = 2
    /\ Len(x) = MaxN
    /\ \E k \in Coordinates : MovedOut(last.x, x, Self, k)
    /\ Added[1] > last.added[1]
    /\ last.added[1] > 0

\* C9: at the same x, the term a transform of factor k adds to each objective
\* is k times the term the transform of factor 1 over the same inner problem
\* adds, for every k (0 and negative k included).
C9_FactorScaling ==
    (pc = "done" /\ last # None /\ last.x = x) =>
        \A j \in Objectives :
            /\ Factor(transforms[last.self]) = 1 =>
                  Added[j] = Factor(Self) * last.added[j]
            /\ Factor(Self) = 1 =>
                  last.added[j] = Factor(transforms[last.self]) * Added[j]

\* Factor 1 added a positive term; factor -1 subtracts it at the same x.
C9_Witness ==
    /\ pc = "done"
    /\ last # None
    /\ last.x = x
    /\ Factor(transforms[last.self]) = 1
    /\ Factor(Self) = -1
    /\ last.added[1] > 0
    /\ Added[1] = -last.added[1]

\* The variant of the loop body that tests the two conditions independently
\* and sums both.
IndependentContribution(v, lo, hi) ==
    (IF v - hi > 0 THEN (v - hi) * (v - hi) ELSE 0)
    + (IF lo - v > 0 THEN (lo - v) * (lo - v) ELSE 0)

\* C10: under lower < upper no coordinate has c1 > 0 and c2 > 0 together, and
\* the penalty the if / else-if loop has accumulated over the coordinates it
\* has passed is the sum the independent variant gives for them.
C10_ElseIfEqualsIndependent ==
    (self # 0 /\ pc # "aborted" /\ WellFormed(Self)) =>
        /\ \A k \in Coordinates :
              ~(x[k] - Upper(Self, k) > 0 /\ Lower(Self, k) - x[k] > 0)
        /\ penalty =
              SumOver([k \in Coordinates |->
                          IndependentContribution(x[k], Lower(Self, k), Upper(Self, k))],
                      IF pc = "loop" THEN i - 1 ELSE Self.number_of_variables)

\* One coordinate above its upper bound, another below its lower bound.
C10_Witness ==
    /\ pc = "done"
    /\ \E k \in Coordinates : x[k] > Upper(Self, k)
    /\ \E k \in Coordinates : x[k] < Lower(Self, k)
    /\ penalty > 0

====
